---- MODULE Spec2Model ----
(***************************************************************************)
(* nosugar (src/src/App.tsx, second revision, lines 761-1411): the sugar   *)
(* budget model, the activity bonus engine, the consumption aggregator,    *)
(* the import normalizer and the App state around them.                    *)
(*                                                                         *)
(* Numbers.  Coefficients, base values and clamp bounds are held in        *)
(* hundredths (105 is 1.05), grams and kcal in whole units.  Products are  *)
(* computed exactly (real arithmetic); the IEEE-754 rounding of the        *)
(* JavaScript doubles is not modelled.  Math.round is round-half-up,       *)
(* floor(x + 1/2).  A calendar day is its day number; the ISO date string  *)
(* that toISOString().slice(0,10) produces is the UTC day number of the    *)
(* instant it is applied to.                                               *)
(***************************************************************************)
EXTENDS Integers, Sequences, FiniteSets, TLC

VARIABLES
    today,              \* local calendar day (day number) of the wall clock
    utcOffset,          \* UTC offset of the local time zone, in hours
    activityKcalToday,  \* useState activityKcalToday
    bonusHistory,       \* useState bonusHistory: day key -> granted bonus
    effectDeps,         \* [cappedBonusToday, todayKey] of the last run of the effect
    onboarding,         \* useState onboarding (the profile)
    settings,           \* useState settings (the coefficient table)
    model,              \* useMemo estimateDailySugarLimitG(onboarding, settings)
    call,               \* the pure function applied last, with its arguments
    ret,                \* what it returned
    logs,               \* useState logs (the ledger), newest entry first
    clock,              \* the instant Date.now() returns, in hours since the epoch
    retired,            \* identifiers of the entries removed so far
    newItem,            \* useState newItem (the manual form's item field)
    newSugar,           \* useState newSugar (the manual form's amount field)
    renderedLogs,       \* the value of logs the handlers of the last render captured
    connections,        \* useState connections (the data source toggles)
    admin               \* useState admin (the admin panel flag)

vars == <<today, utcOffset, activityKcalToday, bonusHistory, effectDeps,
          onboarding, settings, model, call, ret, logs, clock, retired,
          newItem, newSugar, renderedLogs, connections, admin>>

appVars == <<today, utcOffset, activityKcalToday, bonusHistory, effectDeps>>
modelVars == <<onboarding, settings, model>>
callVars == <<call, ret>>
ledgerVars == <<logs, clock, retired>>
uiVars == <<newItem, newSugar, renderedLogs, connections, admin>>

(***************************************************************************)
(* Bounds of the model.                                                    *)
(***************************************************************************)
MaxDay == 7
KcalInputs == {0, 360}
UtcOffsets == {0, 2}

(***************************************************************************)
(* JavaScript numbers that may be NaN or infinite.                         *)
(***************************************************************************)
Num(n) == [kind |-> "num", v |-> n]
NaN == [kind |-> "nan", v |-> 0]

Min(a, b) == IF a <= b THEN a ELSE b
Max(a, b) == IF a >= b THEN a ELSE b

\* Math.round(n / d) for d > 0: floor(n / d + 1/2)
RoundDiv(n, d) == (2 * n + d) \div (2 * d)

(***************************************************************************)
(* Activity bonus engine.                                                  *)
(***************************************************************************)
BonusPerDayCap == 20
WeeklyCap == 60
MinKcal == 100

\* the threshold excludes 100 kcal itself
activitySugarBonusKcal_Inclusive(kcal) ==
    IF kcal.kind = "nan" \/ kcal.v = 0 \/ kcal.v <= MinKcal
    THEN 0
    ELSE Min(RoundDiv(kcal.v, 20), BonusPerDayCap)

\* activitySugarBonusKcal: grams = (kcal / 10) * 0.5, i.e. kcal / 20
activitySugarBonusKcal(kcal) ==
    IF kcal.kind = "nan" \/ kcal.v = 0 \/ kcal.v < MinKcal
    THEN 0
    ELSE Min(RoundDiv(kcal.v, 20), BonusPerDayCap)

RECURSIVE Reduce(_, _)
\* last6.reduce((a, b) => a + (b || 0), 0)
Reduce(s, acc) == IF s = <<>> THEN acc ELSE Reduce(Tail(s), acc + Head(s))

\* the weekly headroom is not applied
weeklyCappedBonus_NoHeadroom(last6, bonusToday) == bonusToday

\* the headroom is not floored at zero
weeklyCappedBonus_NoFloor(last6, bonusToday) ==
    Min(bonusToday, WeeklyCap - Reduce(last6, 0))

weeklyCappedBonus(last6, bonusToday) ==
    LET used == Reduce(last6, 0)
        remaining == Max(0, WeeklyCap - used)
    IN  Min(bonusToday, remaining)

\* the soft cap is not applied
applyDailyCap_NoSoftCap(base, bonus) == base + bonus

\* applyDailyCap: softCap = Math.round(base * 1.3)
applyDailyCap(base, bonus) ==
    LET softCap == RoundDiv(base * 13, 10)
    IN  Min(base + bonus, softCap)

(***************************************************************************)
(* Day keys.  startOfDay(d).toISOString().slice(0,10) is the UTC date of   *)
(* local midnight: east of Greenwich that instant is on the previous UTC   *)
(* day.                                                                    *)
(***************************************************************************)
DayKey(day, off) == IF off > 0 THEN day - 1 ELSE day

todayKey(day, off) == DayKey(day, off)

\* the six keys start at today instead of yesterday
last6Keys_FromToday(day, off) == [i \in 1..6 |-> DayKey(day - (i - 1), off)]

\* [...Array(6)].map((_, i) => addDays(startOfDay(new Date()), -(i+1)) ...)
last6Keys(day, off) == [i \in 1..6 |-> DayKey(day - i, off)]

\* bonusHistory[k] || 0
Lookup(h, k) == IF k \in DOMAIN h THEN h[k] ELSE 0

last6Bonuses(h, day, off) == [i \in 1..6 |-> Lookup(h, last6Keys(day, off)[i])]

rawBonusToday(kcal) == activitySugarBonusKcal(Num(kcal))

cappedBonusToday(h, kcal, day, off) ==
    weeklyCappedBonus(last6Bonuses(h, day, off), rawBonusToday(kcal))

weeklyRemaining(h, day, off) == Max(0, WeeklyCap - Reduce(last6Bonuses(h, day, off), 0))

\* the history is replaced by today's entry alone
PersistBonus_OnlyToday(prev, key, capped) ==
    IF key \in DOMAIN prev /\ prev[key] = capped
    THEN prev
    ELSE (key :> capped)

\* setBonusHistory(prev => prev[todayKey] === capped ? prev : {...prev, [todayKey]: capped})
PersistBonus(prev, key, capped) ==
    IF key \in DOMAIN prev /\ prev[key] = capped
    THEN prev
    ELSE [k \in DOMAIN prev \cup {key} |-> IF k = key THEN capped ELSE prev[k]]

\* One render of App followed by its effects: the bonus effect runs on mount
\* (forced) and whenever cappedBonusToday or todayKey differ from the last run.
RenderApp(h, kcal, forced) ==
    LET key == todayKey(today', utcOffset')
        capped == cappedBonusToday(h, kcal, today', utcOffset')
        deps == <<capped, key>>
    IN  IF forced \/ effectDeps # deps
        THEN /\ bonusHistory' = PersistBonus(h, key, capped)
             /\ effectDeps' = deps
        ELSE /\ bonusHistory' = h
             /\ effectDeps' = effectDeps

(***************************************************************************)
(* Exact arithmetic for the limit: a product of integers is kept as a sign *)
(* and a magnitude in limbs of two decimal digits, least significant       *)
(* first, so that no intermediate result leaves the integers TLC has.      *)
(***************************************************************************)
Abs(n) == IF n < 0 THEN 0 - n ELSE n

RECURSIVE MulLimbs(_, _, _)
MulLimbs(limbs, m, carry) ==
    IF limbs = <<>>
    THEN IF carry = 0 THEN <<>>
         ELSE <<carry % 100>> \o MulLimbs(<<>>, m, carry \div 100)
    ELSE LET t == Head(limbs) * m + carry
         IN  <<t % 100>> \o MulLimbs(Tail(limbs), m, t \div 100)

RECURSIVE LimbValue(_)
LimbValue(limbs) ==
    IF limbs = <<>> THEN 0 ELSE Head(limbs) + 100 * LimbValue(Tail(limbs))

Exact(n) == [neg |-> n < 0, mag |-> MulLimbs(<<1>>, Abs(n), 0)]
Times(x, f) == [neg |-> (x.neg # (f < 0)), mag |-> MulLimbs(x.mag, Abs(f), 0)]

\* A real number of which the floor in hundredths is known, and whether it
\* lies strictly above that floor.
Hundredths(h) == [h |-> h, frac |-> FALSE]

\* x / 10^12 for an exact product x
Scaled12(x) ==
    LET n == Len(x.mag)
        low == \E i \in 1..Min(6, n) : x.mag[i] # 0
        high == LimbValue(SubSeq(x.mag, 7, n))
    IN  IF x.neg /\ low THEN [h |-> 0 - high - 1, frac |-> TRUE]
        ELSE IF x.neg THEN [h |-> 0 - high, frac |-> FALSE]
        ELSE [h |-> high, frac |-> low]

\* a < b, one of the two being a whole number of hundredths
Less(a, b) == a.h < b.h \/ (a.h = b.h /\ ~a.frac /\ b.frac)

\* Math.min(a, b), Math.max(a, b)
MathMin(a, b) == IF Less(b, a) THEN b ELSE a
MathMax(a, b) == IF Less(a, b) THEN b ELSE a

\* Math.round(x): floor(x + 1/2)
MathRound(x) == (x.h + 50) \div 100

\* the two bounds are applied in the other order
clamp_MinOuter(n, lo, hi) == MathMin(hi, MathMax(lo, n))

\* function clamp(n, lo, hi) { return Math.max(lo, Math.min(hi, n)) }
clamp(n, lo, hi) == MathMax(lo, MathMin(hi, n))

\* round2(n) = Math.round(n * 100) / 100 of the number n / scale, in hundredths
round2(n, scale) == RoundDiv(n * 100, scale)

(***************************************************************************)
(* The budget model.                                                       *)
(***************************************************************************)
\* the ethnicity field is optional
NoEthnicity == "(undefined)"

DefaultSettings ==
    [baseMale |-> 3600, baseFemale |-> 2500, baseOther |-> 3000,
     bmiUnder |-> 105, bmiOver |-> 97, bmiObese |-> 93,
     pancreasYouth |-> 105, pancreasMiddle |-> 95, pancreasSenior |-> 90,
     ageChild |-> 92, ageMiddle |-> 97, ageSenior |-> 92,
     actHigh |-> 110, actLow |-> 95,
     ethSouthAsian |-> 97, ethEastAsian |-> 98, ethHispanic |-> 99, ethBlack |-> 99,
     clampMin |-> 1800, clampMax |-> 4200]

DefaultOnboarding ==
    [name |-> "", sex |-> "unspecified", age |-> 30, heightCm |-> 175, weightKg |-> 75,
     ethnicity |-> "prefer-not-to-say", activity |-> "moderate",
     consentAnalytics |-> FALSE, useEthnicityAdjustment |-> FALSE, onboarded |-> FALSE]

\* bmiOf: weightKg / (h * h) with h = heightCm / 100, as the fraction
\* weightKg * 10^4 / heightCm^2; a zero height gives NaN or an infinity.
bmiOf(heightCm, weightKg) ==
    IF heightCm # 0
    THEN [kind |-> "num", num |-> weightKg * 10000, den |-> heightCm * heightCm]
    ELSE IF weightKg = 0 THEN [kind |-> "nan", num |-> 0, den |-> 1]
    ELSE IF weightKg > 0 THEN [kind |-> "inf", num |-> 1, den |-> 1]
    ELSE [kind |-> "-inf", num |-> 0 - 1, den |-> 1]

\* the threshold itself counts as below
BmiLess_Inclusive(bmi, t10) ==
    \/ bmi.kind = "-inf"
    \/ bmi.kind = "num" /\ bmi.num * 10 <= t10 * bmi.den

\* bmi < t and bmi >= t for a threshold t given in tenths; both are false of NaN
BmiLess(bmi, t10) ==
    \/ bmi.kind = "-inf"
    \/ bmi.kind = "num" /\ bmi.num * 10 < t10 * bmi.den
BmiAtLeast(bmi, t10) ==
    \/ bmi.kind = "inf"
    \/ bmi.kind = "num" /\ bmi.num * 10 >= t10 * bmi.den

\* round2(_bmi), in hundredths
round2Bmi(bmi) ==
    IF bmi.kind = "num" THEN [kind |-> "num", v |-> RoundDiv(bmi.num * 100, bmi.den)]
    ELSE [kind |-> bmi.kind, v |-> 0]

\* the clamp to [0.8, 1.1] is left out
pancreasCapacityFactor_NoClamp(age, bmi, S) ==
    LET ageF == IF age < 20 THEN S.pancreasYouth
                ELSE IF age >= 40 /\ age < 60 THEN S.pancreasMiddle
                ELSE IF age >= 60 THEN S.pancreasSenior
                ELSE 100
        bmiF == IF BmiAtLeast(bmi, 250) /\ BmiLess(bmi, 300) THEN S.bmiOver
                ELSE IF BmiAtLeast(bmi, 300) THEN S.bmiObese
                ELSE 100
    IN  ageF * bmiF

\* pancreasCapacityFactor, in ten-thousandths: clamp(ageF * bmiF, 0.8, 1.1)
pancreasCapacityFactor(age, bmi, S) ==
    LET ageF == IF age < 20 THEN S.pancreasYouth
                ELSE IF age >= 40 /\ age < 60 THEN S.pancreasMiddle
                ELSE IF age >= 60 THEN S.pancreasSenior
                ELSE 100
        bmiF == IF BmiAtLeast(bmi, 250) /\ BmiLess(bmi, 300) THEN S.bmiOver
                ELSE IF BmiAtLeast(bmi, 300) THEN S.bmiObese
                ELSE 100
    IN  Max(8000, Min(11000, ageF * bmiF))

\* String.prototype.toLowerCase over the letters A-Z
LowerChar(c) ==
    LET upper == "ABCDEFGHIJKLMNOPQRSTUVWXYZ"
        lower == "abcdefghijklmnopqrstuvwxyz"
    IN  IF \E i \in 1..26 : SubSeq(upper, i, i) = c
        THEN LET i == CHOOSE j \in 1..26 : SubSeq(upper, j, j) = c
             IN  SubSeq(lower, i, i)
        ELSE c

RECURSIVE toLowerCase(_)
toLowerCase(str) ==
    IF str = "" THEN ""
    ELSE LowerChar(SubSeq(str, 1, 1)) \o toLowerCase(SubSeq(str, 2, Len(str)))

\* /(k1|k2|...)/.test(e): some keyword occurs in e
Test(keywords, e) ==
    \E kw \in keywords :
        \E i \in 1..(Len(e) - Len(kw) + 1) : SubSeq(e, i, i + Len(kw) - 1) = kw

SouthAsianWords == {"south asian", "indian", "pakistani", "bangladesh", "sri lanka"}
EastAsianWords == {"east asian", "chinese", "japanese", "korean"}
HispanicWords == {"hispanic", "latino"}
BlackWords == {"african", "black"}

\* the East Asian group is tried before the South Asian one
ethnicityFactor_EastFirst(eth, S) ==
    IF eth = NoEthnicity \/ eth = "" THEN 100
    ELSE LET e == toLowerCase(eth)
         IN  IF Test(EastAsianWords, e) THEN S.ethEastAsian
             ELSE IF Test(SouthAsianWords, e) THEN S.ethSouthAsian
             ELSE IF Test(HispanicWords, e) THEN S.ethHispanic
             ELSE IF Test(BlackWords, e) THEN S.ethBlack
             ELSE 100

ethnicityFactor(eth, S) ==
    IF eth = NoEthnicity \/ eth = "" THEN 100
    ELSE LET e == toLowerCase(eth)
         IN  IF Test(SouthAsianWords, e) THEN S.ethSouthAsian
             ELSE IF Test(EastAsianWords, e) THEN S.ethEastAsian
             ELSE IF Test(HispanicWords, e) THEN S.ethHispanic
             ELSE IF Test(BlackWords, e) THEN S.ethBlack
             ELSE 100

\* moderate activity takes the low coefficient
activityFactor_ModerateLow(level, S) ==
    IF level = "high" THEN S.actHigh ELSE S.actLow

activityFactor(level, S) ==
    IF level = "high" THEN S.actHigh ELSE IF level = "moderate" THEN 100 ELSE S.actLow

\* the opt-in flag is not consulted
ethAdjOf_AlwaysOn(user, S) == ethnicityFactor(user.ethnicity, S)

\* user.useEthnicityAdjustment ? ethnicityFactor(user.ethnicity, S) : 1
ethAdjOf(user, S) ==
    IF user.useEthnicityAdjustment THEN ethnicityFactor(user.ethnicity, S) ELSE 100

\* the limit is rounded without being clamped
clampAndRound_NoClamp(limit, S) == MathRound(limit)

\* limit = Math.round(clamp(limit, S.clampMin, S.clampMax))
clampAndRound(limit, S) ==
    MathRound(clamp(limit, Hundredths(S.clampMin), Hundredths(S.clampMax)))

\* the age adjustment follows the age bands of the pancreas factor
ageAdjOf_PancreasBands(age, S) ==
    IF age < 20 THEN S.ageChild
    ELSE IF age >= 40 /\ age < 60 THEN S.ageMiddle
    ELSE IF age >= 60 THEN S.ageSenior
    ELSE 100

\* let ageAdj=1; if(user.age<18) ... else if(user.age>=45&&user.age<60) ... else if(user.age>=60) ...
ageAdjOf(age, S) ==
    IF age < 18 THEN S.ageChild
    ELSE IF age >= 45 /\ age < 60 THEN S.ageMiddle
    ELSE IF age >= 60 THEN S.ageSenior
    ELSE 100

estimateDailySugarLimitG(user, S) ==
    LET base == IF user.sex = "male" THEN S.baseMale
                ELSE IF user.sex = "female" THEN S.baseFemale
                ELSE S.baseOther
        bmi == bmiOf(user.heightCm, user.weightKg)
        bmiAdj == IF BmiLess(bmi, 185) THEN S.bmiUnder
                  ELSE IF BmiAtLeast(bmi, 250) /\ BmiLess(bmi, 300) THEN S.bmiOver
                  ELSE IF BmiAtLeast(bmi, 300) THEN S.bmiObese
                  ELSE 100
        pancreasAdj == pancreasCapacityFactor(user.age, bmi, S)
        ageAdj == ageAdjOf(user.age, S)
        actAdj == activityFactor(user.activity, S)
        ethAdj == ethAdjOf(user, S)
        \* base * bmiAdj * pancreasAdj * ageAdj * actAdj * ethAdj, in units of 10^-14
        product == Times(Times(Times(Times(Times(Exact(base), bmiAdj), pancreasAdj),
                                     ageAdj), actAdj), ethAdj)
        limit == Scaled12(product)
    IN  [total |-> clampAndRound(limit, S),
         breakdown |->
            [base |-> base,
             bmiAdj |-> round2(bmiAdj, 100),
             pancreasAdj |-> round2(pancreasAdj, 10000),
             ageAdj |-> round2(ageAdj, 100),
             actAdj |-> round2(actAdj, 100),
             ethAdj |-> round2(ethAdj, 100),
             bmi |-> round2Bmi(bmi)]]

(***************************************************************************)
(* The App: activity energy, bonus history, clock.                         *)
(***************************************************************************)
NoCall == [fn |-> "none", args |-> <<>>]

InitApp(off) ==
    /\ today = 0
    /\ utcOffset = off
    /\ activityKcalToday = 0
    \* the first render has run its effects
    /\ bonusHistory = (todayKey(0, off) :> 0)
    /\ effectDeps = <<0, todayKey(0, off)>>

InitBudget ==
    /\ onboarding = DefaultOnboarding
    /\ settings = DefaultSettings
    /\ model = estimateDailySugarLimitG(DefaultOnboarding, DefaultSettings)

\* useState connections: nothing connected
DefaultConnections == [uberEats |-> FALSE, banking |-> FALSE, appleHealth |-> FALSE]

\* the manual form is empty, nothing is connected, the admin panel is off
InitUi ==
    /\ newItem = ""
    /\ newSugar = ""
    /\ renderedLogs = logs
    /\ connections = DefaultConnections
    /\ admin = FALSE

\* useState logs: an empty ledger (nothing stored yet)
InitLedger ==
    /\ logs = <<>>
    /\ clock = 0
    /\ retired = {}
    /\ InitUi

Init ==
    /\ \E off \in UtcOffsets : InitApp(off)
    /\ InitBudget
    /\ InitLedger
    /\ call = NoCall
    /\ ret = <<>>

\* onChange of the activity input: setActivityKcalToday(Number(e.target.value || 0))
SetActivityKcal ==
    \E k \in KcalInputs :
        /\ activityKcalToday' = k
        /\ UNCHANGED <<today, utcOffset>>
        /\ RenderApp(bonusHistory, k, FALSE)
        /\ UNCHANGED <<modelVars, callVars, ledgerVars, uiVars>>

\* A re-render for any other reason (another piece of state changed).
Render ==
    /\ UNCHANGED <<today, utcOffset, activityKcalToday>>
    /\ RenderApp(bonusHistory, activityKcalToday, FALSE)
    /\ UNCHANGED <<modelVars, callVars, ledgerVars, uiVars>>

\* The page is loaded again: state comes back from storage, every effect runs.
Mount ==
    /\ UNCHANGED <<today, utcOffset, activityKcalToday>>
    /\ RenderApp(bonusHistory, activityKcalToday, TRUE)
    /\ UNCHANGED <<modelVars, callVars, ledgerVars, uiVars>>

\* the energy entered is dropped at midnight
AdvanceDay_ClearsKcal ==
    /\ today < MaxDay
    /\ today' = today + 1
    /\ activityKcalToday' = 0
    /\ UNCHANGED <<utcOffset, bonusHistory, effectDeps>>
    /\ UNCHANGED <<modelVars, callVars, ledgerVars, uiVars>>

\* Midnight passes; nothing renders.
AdvanceDay ==
    /\ today < MaxDay
    /\ today' = today + 1
    /\ UNCHANGED <<utcOffset, activityKcalToday, bonusHistory, effectDeps>>
    /\ UNCHANGED <<modelVars, callVars, ledgerVars, uiVars>>

\* the connections are left as they are
ResetAll_KeepsConnections ==
    \E confirmed \in BOOLEAN :
        IF ~confirmed
        THEN UNCHANGED vars
        ELSE /\ activityKcalToday' = 0
             /\ UNCHANGED <<today, utcOffset>>
             /\ RenderApp(<<>>, 0, FALSE)
             /\ logs' = <<>>
             /\ renderedLogs' = <<>>
             /\ retired' = retired \cup {logs[i].id : i \in 1..Len(logs)}
             /\ onboarding' = DefaultOnboarding
             /\ model' = estimateDailySugarLimitG(DefaultOnboarding, settings)
             /\ UNCHANGED <<settings, clock, callVars, newItem, newSugar, admin, connections>>

\* resetAll
ResetAll ==
    \E confirmed \in BOOLEAN :
        IF ~confirmed
        THEN UNCHANGED vars
        ELSE /\ activityKcalToday' = 0
             /\ UNCHANGED <<today, utcOffset>>
             /\ RenderApp(<<>>, 0, FALSE)
             /\ logs' = <<>>
             /\ renderedLogs' = <<>>
             /\ retired' = retired \cup {logs[i].id : i \in 1..Len(logs)}
             /\ onboarding' = DefaultOnboarding
             /\ model' = estimateDailySugarLimitG(DefaultOnboarding, settings)
             /\ connections' = DefaultConnections
             /\ UNCHANGED <<settings, clock, callVars, newItem, newSugar, admin>>

Next == SetActivityKcal \/ Render \/ Mount \/ AdvanceDay \/ ResetAll

Spec == Init /\ [][Next]_vars

(***************************************************************************)
(* The bonus functions applied to arguments drawn from bounded sets.       *)
(***************************************************************************)
KcalMax == 1200
PriorBonuses == {0, 18, 20}
BaseLimitMin == 0 - 12
BaseLimitMax == 60

KcalArgs == {Num(n) : n \in (0 - 5)..KcalMax} \cup {NaN}

BonusCalls ==
    {[fn |-> "activitySugarBonusKcal", args |-> <<kcal>>] : kcal \in KcalArgs}
    \cup {[fn |-> "weeklyCappedBonus", args |-> <<last6, bonusToday>>] :
              last6 \in [1..6 -> PriorBonuses], bonusToday \in 0..BonusPerDayCap}
    \cup {[fn |-> "applyDailyCap", args |-> <<base, bonus>>] :
              base \in BaseLimitMin..BaseLimitMax, bonus \in 0..BonusPerDayCap}

InitBonusFn ==
    /\ InitApp(0)
    /\ InitBudget
    /\ InitLedger
    /\ call \in BonusCalls
    /\ ret = <<>>

CallActivitySugarBonusKcal ==
    /\ call.fn = "activitySugarBonusKcal" /\ ret = <<>>
    /\ ret' = <<activitySugarBonusKcal(call.args[1])>>
    /\ UNCHANGED <<appVars, modelVars, ledgerVars, uiVars, call>>

CallWeeklyCappedBonus ==
    /\ call.fn = "weeklyCappedBonus" /\ ret = <<>>
    /\ ret' = <<weeklyCappedBonus(call.args[1], call.args[2])>>
    /\ UNCHANGED <<appVars, modelVars, ledgerVars, uiVars, call>>

CallApplyDailyCap ==
    /\ call.fn = "applyDailyCap" /\ ret = <<>>
    /\ ret' = <<applyDailyCap(call.args[1], call.args[2])>>
    /\ UNCHANGED <<appVars, modelVars, ledgerVars, uiVars, call>>

NextBonusFn == CallActivitySugarBonusKcal \/ CallWeeklyCappedBonus \/ CallApplyDailyCap

SpecBonusFn == InitBonusFn /\ [][NextBonusFn]_vars

\* the function f has been applied and has returned
Returned(f) == call.fn = f /\ ret # <<>>

(***************************************************************************)
(* The profile form and the admin coefficient panel.  Every edit is        *)
(* followed by the render that recomputes the model (useMemo).             *)
(***************************************************************************)
\* onChange of a profile field: setOnboarding({...onboarding, [field]: v})
SetOnboarding(field, values) ==
    \E v \in values :
        /\ onboarding' = [onboarding EXCEPT ![field] = v]
        /\ settings' = settings
        /\ model' = estimateDailySugarLimitG(onboarding', settings')
        /\ UNCHANGED <<appVars, callVars, ledgerVars, uiVars>>

\* onChange of a NumberField of the panel: setSettings({...settings, [field]: v})
SetSettings(fields, values) ==
    \E f \in fields, v \in values :
        /\ settings' = [settings EXCEPT ![f] = v]
        /\ onboarding' = onboarding
        /\ model' = estimateDailySugarLimitG(onboarding', settings')
        /\ UNCHANGED <<appVars, callVars, ledgerVars, uiVars>>

\* the coefficient goes back to the value the App starts with
ResetSetting(fields) ==
    \E f \in fields :
        /\ settings' = [settings EXCEPT ![f] = DefaultSettings[f]]
        /\ onboarding' = onboarding
        /\ model' = estimateDailySugarLimitG(onboarding', settings')
        /\ UNCHANGED <<appVars, callVars, ledgerVars, uiVars>>

InitModel ==
    /\ InitApp(0)
    /\ InitBudget
    /\ InitLedger
    /\ call = NoCall
    /\ ret = <<>>

Heights == {0, 175, 200}
Weights == {0, 50, 75, 88, 100}
\* multipliers far outside the sane range: -3.00 and 20.00
ExtremeCoefficients == {0 - 300, 2000}

\* Pancreas factor: ages around its bands, every BMI band, extreme multipliers.
PancreasAges == {19, 20, 39, 40, 59, 60}
PancreasFields == {"pancreasYouth", "pancreasMiddle", "pancreasSenior", "bmiOver", "bmiObese"}

NextPancreas ==
    \/ SetOnboarding("age", PancreasAges \cup {DefaultOnboarding.age})
    \/ SetOnboarding("heightCm", Heights)
    \/ SetOnboarding("weightKg", Weights)
    \/ SetSettings(PancreasFields, ExtremeCoefficients)
    \/ ResetSetting(PancreasFields)

SpecPancreas == InitModel /\ [][NextPancreas]_vars

\* Total limit: base values and clamp bounds around each other.
Sexes == {"male", "female", "other", "unspecified"}
Activities == {"low", "moderate", "high"}
LimitAges == {10, 30, 65}
LimitHeights == {175, 200}
LimitWeights == {0, 75, 88, 100}
BaseFields == {"baseMale", "baseFemale", "baseOther"}
ClampMinValues == {1800, 1850, 4000}
ClampMaxValues == {4200, 4150, 1000}

NextLimit ==
    \/ SetOnboarding("sex", Sexes)
    \/ SetOnboarding("age", LimitAges)
    \/ SetOnboarding("heightCm", LimitHeights)
    \/ SetOnboarding("weightKg", LimitWeights)
    \/ SetOnboarding("activity", Activities)
    \/ SetSettings({"baseMale"}, {9000})
    \/ SetSettings({"baseFemale"}, {1050})
    \/ SetSettings({"baseOther"}, {3050})
    \/ ResetSetting(BaseFields)
    \/ SetSettings({"clampMin"}, ClampMinValues)
    \/ SetSettings({"clampMax"}, ClampMaxValues)

SpecLimit == InitModel /\ [][NextLimit]_vars

\* Ethnicity: labels of every group, of two groups, of none; the opt-in flag.
EthLabels ==
    {"prefer-not-to-say", "", NoEthnicity, "Martian",
     "Indian", "SRI LANKA", "Chinese", "Korean Indian",
     "Latino", "Black Hispanic", "African"}
EthFields == {"ethSouthAsian", "ethEastAsian", "ethHispanic", "ethBlack"}
EthValues == {50, 200}

NextEth ==
    \/ SetOnboarding("ethnicity", EthLabels)
    \/ SetOnboarding("useEthnicityAdjustment", BOOLEAN)
    \/ SetSettings(EthFields, EthValues)
    \/ ResetSetting(EthFields)

SpecEth == InitModel /\ [][NextEth]_vars

\* Bands: ages around every edge of the two age scales, weights that give at
\* a height of 2 m the BMI values 18, 18.5, 22, 25, 29.75 and 30, a height and
\* a weight of 0 (BMI 0/0), a senior coefficient that differs from the child
\* one, clamp bounds in either order, and base values whose products lie
\* below, between and above the clamp bounds.
BandAges == {17, 18, 19, 20, 39, 40, 44, 45, 59, 60}
BandHeights == {0, 200}
BandWeights == {0, 72, 74, 88, 100, 119, 120}
BandSenior == {88}
BandClampMin == {4050}
BandClampMax == {1000}
BandBase == {900, 9000}

NextBands ==
    \/ SetOnboarding("age", BandAges)
    \/ SetOnboarding("heightCm", BandHeights)
    \/ SetOnboarding("weightKg", BandWeights)
    \/ SetSettings({"ageSenior"}, BandSenior)
    \/ SetSettings({"clampMin"}, BandClampMin)
    \/ SetSettings({"clampMax"}, BandClampMax)
    \/ SetSettings({"baseOther"}, BandBase)
    \/ ResetSetting({"ageSenior", "clampMin", "clampMax", "baseOther"})

SpecBands == InitModel /\ [][NextBands]_vars

(***************************************************************************)
(* Claims.                                                                 *)
(***************************************************************************)
\* the bonuses recorded for the n consecutive day keys that end with key e
RECURSIVE SumBack(_, _, _)
SumBack(h, e, n) == IF n = 0 THEN 0 ELSE Lookup(h, e) + SumBack(h, e - 1, n - 1)

\* the bonuses recorded for the 7 consecutive days that end with day key e
WindowSum(h, e) == SumBack(h, e, 7)

\* min(raw, max(0, 60 - recorded bonuses of the six day keys before key))
ExpectedGrant(h, kcal, key) ==
    LET prior == SumBack(h, key - 1, 6)
        headroom == IF prior >= 60 THEN 0 ELSE 60 - prior
        raw == rawBonusToday(kcal)
    IN  IF raw <= headroom THEN raw ELSE headroom

\* C1: from an empty history, after any sequence of energy edits,
\* re-computations and day advances, the bonuses recorded over every 7
\* consecutive calendar days sum to at most 60 g.
C1_WeeklyCapHolds ==
    \A e \in (0 - 1)..(MaxDay + 6) : WindowSum(bonusHistory, e) <= 60

\* a window is full and today's grant was cut below the raw bonus
C1_Witness ==
    LET key == todayKey(today, utcOffset)
    IN  /\ WindowSum(bonusHistory, key) = 60
        /\ Lookup(bonusHistory, key) < rawBonusToday(activityKcalToday)
        /\ effectDeps[2] = key

\* C2: the granted bonus is min(day-capped raw bonus, max(0, 60 - sum of the
\* six prior bonuses)); prior sum 58 and raw 20 grant 2; a prior sum of 60 or
\* more grants 0.
C2_GrantIsHeadroomLimited ==
    Returned("weeklyCappedBonus") =>
        LET l == call.args[1]
            t == call.args[2]
            prior == l[1] + l[2] + l[3] + l[4] + l[5] + l[6]
            headroom == IF prior >= 60 THEN 0 ELSE 60 - prior
        IN  /\ ret[1] = (IF t <= headroom THEN t ELSE headroom)
            /\ (prior = 58 /\ t = 20 => ret[1] = 2)
            /\ (prior >= 60 => ret[1] = 0)

C2_Witness ==
    /\ Returned("weeklyCappedBonus")
    /\ call.args[1] = <<20, 20, 18, 0, 0, 0>>
    /\ call.args[2] = 20
    /\ ret = <<2>>

\* C3: the raw daily bonus is 0 below 100 kcal (or for a missing value) and
\* otherwise min(round(kcal / 10 * 0.5), 20): 99 gives 0, 100 gives 5, 1000
\* gives 20; it is always an integer in 0..20.
C3_RawBonus ==
    Returned("activitySugarBonusKcal") =>
        LET k == call.args[1]
            r == ret[1]
        IN  /\ r \in 0..20
            /\ (k.kind = "nan" => r = 0)
            /\ (k.kind = "num" /\ k.v < 100 => r = 0)
            /\ (k.kind = "num" /\ k.v >= 100 =>
                    \* round(kcal / 20) is the integer q with q - 1/2 <= kcal / 20 < q + 1/2
                    \E q \in 0..(k.v) :
                        /\ 20 * q - 10 <= k.v /\ k.v < 20 * q + 10
                        /\ r = (IF q <= 20 THEN q ELSE 20))
            /\ (k = Num(99) => r = 0)
            /\ (k = Num(100) => r = 5)
            /\ (k = Num(1000) => r = 20)

C3_Witness ==
    /\ Returned("activitySugarBonusKcal")
    /\ call.args[1] = Num(100)
    /\ ret = <<5>>

\* C4 as claimed: for every base limit and every non-negative bonus the
\* result is min(base + bonus, round(base * 1.3)), at most round(base * 1.3)
\* and at least base.
C4_Original ==
    Returned("applyDailyCap") =>
        LET base == call.args[1]
            bonus == call.args[2]
            cap == (13 * base + 5) \div 10
        IN  /\ ret[1] = (IF base + bonus <= cap THEN base + bonus ELSE cap)
            /\ ret[1] <= cap
            /\ ret[1] >= base

\* C4 amended: the same for every base limit that is not negative.
C4_DailyCapBounds ==
    Returned("applyDailyCap") /\ call.args[1] >= 0 =>
        LET base == call.args[1]
            bonus == call.args[2]
            cap == (13 * base + 5) \div 10
        IN  /\ ret[1] = (IF base + bonus <= cap THEN base + bonus ELSE cap)
            /\ ret[1] <= cap
            /\ ret[1] >= base

\* the 30 % ceiling cuts the bonus
C4_Witness ==
    /\ Returned("applyDailyCap")
    /\ call.args = <<30, 20>>
    /\ ret = <<39>>

\* C5: the grant is written under the current day key, replacing what was
\* stored there, and repeating the computation on the same day with the same
\* energy leaves the history as it was.
C5_PersistIdempotent ==
    \* every step but the passing of midnight renders the App
    /\ [][today' = today =>
            Lookup(bonusHistory', todayKey(today', utcOffset'))
                = ExpectedGrant(bonusHistory', activityKcalToday',
                                todayKey(today', utcOffset'))]_vars
    /\ [][(/\ today' = today
           /\ activityKcalToday' = activityKcalToday
           /\ todayKey(today, utcOffset) \in DOMAIN bonusHistory
           /\ effectDeps[2] = todayKey(today, utcOffset)
           /\ Mount)
            => bonusHistory' = bonusHistory]_vars

\* a headroom-limited grant stored under today's key, six days of history behind it
C5_Witness ==
    LET key == todayKey(today, utcOffset)
    IN  /\ key \in DOMAIN bonusHistory
        /\ effectDeps = <<bonusHistory[key], key>>
        /\ bonusHistory[key] > 0
        /\ bonusHistory[key] < rawBonusToday(activityKcalToday)
        /\ SumBack(bonusHistory, key - 1, 6) > 40

\* C6: for every age, every BMI and every coefficient table, extreme
\* multipliers included, the pancreas-capacity factor lies within [0.8, 1.1].
C6_PancreasWithinRange ==
    LET p == pancreasCapacityFactor(onboarding.age,
                                    bmiOf(onboarding.heightCm, onboarding.weightKg),
                                    settings)
    IN  /\ 8000 <= p /\ p <= 11000
        /\ model.breakdown.pancreasAdj \in 80..110

\* the product of the age and BMI multipliers is far above 1.1 and is cut to 1.1
C6_Witness ==
    /\ onboarding.age = 60 /\ settings.pancreasSenior = 2000
    /\ onboarding.heightCm = 175 /\ onboarding.weightKg = 100 /\ settings.bmiObese = 2000
    /\ model.breakdown.pancreasAdj = 110

\* round(clamp(x, lo, hi)) for x, lo and hi whole numbers of hundredths
RoundClampH(x, lo, hi) ==
    LET c == IF hi < x THEN hi ELSE x
        d == IF c < lo THEN lo ELSE c
    IN  (d + 50) \div 100

\* C7: with clampMin <= clampMax the total is the integer
\* round(clamp(base * bmiAdj * pancreasAdj * ageAdj * actAdj * ethAdj,
\* clampMin, clampMax)), hence between round(clampMin) and round(clampMax).
C7_TotalIsClampedAndRounded ==
    settings.clampMin <= settings.clampMax =>
        LET b == model.breakdown
            pancreas == pancreasCapacityFactor(onboarding.age,
                            bmiOf(onboarding.heightCm, onboarding.weightKg), settings)
            \* the product in hundredths, exactly: floor and whether above the floor
            prod == Scaled12(Times(Times(Times(Times(Times(Exact(b.base), b.bmiAdj),
                                   pancreas), b.ageAdj), b.actAdj), b.ethAdj))
            below == prod.h < settings.clampMin
            above == prod.h > settings.clampMax
                        \/ (prod.h = settings.clampMax /\ prod.frac)
        IN  /\ model.total \in Int
            /\ (settings.clampMin + 50) \div 100 <= model.total
            /\ model.total <= (settings.clampMax + 50) \div 100
            /\ (below => model.total = (settings.clampMin + 50) \div 100)
            /\ (above => model.total = (settings.clampMax + 50) \div 100)
            \* within the bounds the total is the integer nearest to the product
            /\ (~below /\ ~above =>
                    /\ 100 * model.total - 50 <= prod.h
                    /\ prod.h < 100 * model.total + 50)

\* a product above clampMax = 41.5 is cut to it and rounds to 42
C7_Witness ==
    /\ settings.clampMin = 1850 /\ settings.clampMax = 4150
    /\ onboarding.sex = "male" /\ settings.baseMale = 9000
    /\ model.total = 42

\* the profile of C8: BMI exactly 22, age 30, moderate activity, no opt-in
NeutralProfile(user) ==
    /\ user.heightCm # 0
    /\ user.weightKg * 10000 = 22 * user.heightCm * user.heightCm
    /\ user.age = 30
    /\ user.activity = "moderate"
    /\ ~user.useEthnicityAdjustment

\* every multiplier of the table replaced by v
WithMultipliers(S, v) ==
    [f \in DOMAIN S |->
        IF f \in BaseFields \cup {"clampMin", "clampMax"} THEN S[f] ELSE v]

\* C8: for every sex and every coefficient table, BMI exactly 22, age 30,
\* moderate activity and no ethnicity opt-in give
\* total = round(clamp(base of that sex, clampMin, clampMax)), 'other' and
\* 'unspecified' both taking the 'other' base; every factor is exactly 1.
C8_NeutralProfileGetsBase ==
    NeutralProfile(onboarding) =>
        \A S \in {settings} \cup {WithMultipliers(settings, v) : v \in ExtremeCoefficients} :
            LET m == estimateDailySugarLimitG(onboarding, S)
                base == IF onboarding.sex = "male" THEN S.baseMale
                        ELSE IF onboarding.sex = "female" THEN S.baseFemale
                        ELSE S.baseOther
            IN  /\ m.total = RoundClampH(base, S.clampMin, S.clampMax)
                /\ m.breakdown.bmiAdj = 100 /\ m.breakdown.pancreasAdj = 100
                /\ m.breakdown.ageAdj = 100 /\ m.breakdown.actAdj = 100
                /\ m.breakdown.ethAdj = 100
                /\ m.breakdown.bmi = [kind |-> "num", v |-> 2200]
                /\ (S = settings => m = model)

C8_Witness ==
    /\ NeutralProfile(onboarding)
    /\ onboarding.sex = "unspecified"
    /\ settings.baseOther = 3050
    /\ model.total = 31

\* the group each label of EthLabels belongs to, by the keyword lists and
\* their priority order
ExpectedGroup(label) ==
    CASE label \in {"Indian", "SRI LANKA", "Korean Indian"} -> "ethSouthAsian"
      [] label \in {"Chinese"} -> "ethEastAsian"
      [] label \in {"Latino", "Black Hispanic"} -> "ethHispanic"
      [] label \in {"African"} -> "ethBlack"
      [] OTHER -> "none"

\* C9: with the opt-in, the label is matched case-insensitively against the
\* four keyword groups in the order South Asian, East Asian, Hispanic/Latino,
\* African/Black and the first matching group's coefficient is the factor;
\* an empty, missing or unrecognized label gives exactly 1.
C9_EthnicityFirstMatch ==
    LET g == ExpectedGroup(onboarding.ethnicity)
        expected == IF g = "none" THEN 100 ELSE settings[g]
    IN  /\ ethnicityFactor(onboarding.ethnicity, settings) = expected
        /\ (onboarding.useEthnicityAdjustment => model.breakdown.ethAdj = expected)

\* a label of two groups, whose coefficients differ, gets the earlier group's
C9_Witness ==
    /\ onboarding.useEthnicityAdjustment
    /\ onboarding.ethnicity = "Korean Indian"
    /\ settings.ethSouthAsian = 200 /\ settings.ethEastAsian = 50
    /\ model.breakdown.ethAdj = 200

\* C10: without the opt-in the ethnicity factor is exactly 1, and neither the
\* label nor the four ethnicity coefficients change the total or the
\* breakdown: every profile and table give what the same profile and table
\* give with the default label and the default ethnicity coefficients.
C10_NoOptInNoInfluence ==
    ~onboarding.useEthnicityAdjustment =>
        /\ model.breakdown.ethAdj = 100
        /\ model = estimateDailySugarLimitG(
                      [onboarding EXCEPT !.ethnicity = DefaultOnboarding.ethnicity],
                      [f \in DOMAIN settings |->
                          IF f \in EthFields THEN DefaultSettings[f] ELSE settings[f]])

\* a recognised label and a changed coefficient for it, and no opt-in
C10_Witness ==
    /\ ~onboarding.useEthnicityAdjustment
    /\ onboarding.ethnicity = "Indian"
    /\ settings.ethSouthAsian = 50
    /\ model.total = 30

(***************************************************************************)
(* Consumption aggregator.  An instant is a whole number of hours since    *)
(* the epoch (UTC); the local time zone is a fixed offset in hours.        *)
(***************************************************************************)
HoursPerDay == 24

\* new Date(d); setHours(0,0,0,0): midnight of the local day that holds t
startOfDay(t, off) == ((t + off) \div HoursPerDay) * HoursPerDay - off

\* setDate(getDate() + days): the same local time, days later
addDays(t, days) == t + HoursPerDay * days

\* toISOString().slice(0,10): the UTC calendar date of t, as a day number
toISODate(t) == t \div HoursPerDay

\* the month and the day of the month of a day number (the proleptic
\* Gregorian calendar that toISOString prints)
CivilFromDays(z0) ==
    LET z == z0 + 719468
        era == z \div 146097
        doe == z - era * 146097
        yoe == (doe - doe \div 1460 + doe \div 36524 - doe \div 146096) \div 365
        doy == doe - (365 * yoe + yoe \div 4 - yoe \div 100)
        mp == (5 * doy + 2) \div 153
        d == doy - (153 * mp + 2) \div 5 + 1
        m == IF mp < 10 THEN mp + 3 ELSE mp - 9
    IN  [y |-> yoe + era * 400 + (IF m <= 2 THEN 1 ELSE 0), m |-> m, d |-> d]

\* key.slice(5): "MM-DD" of the day key
DayLabel(key) == <<CivilFromDays(key).m, CivilFromDays(key).d>>

\* Map.get(key) || 0 on a Map held as its entries in insertion order
MapGet(map, key) ==
    IF \E i \in 1..Len(map) : map[i].key = key
    THEN map[CHOOSE i \in 1..Len(map) : map[i].key = key].total
    ELSE 0

\* every set appends an entry, also for a key that is present
MapSet_AppendOnly(map, key, v) == Append(map, [key |-> key, total |-> v])

\* Map.set(key, v): replaces the value of a present key, appends a new key
MapSet(map, key, v) ==
    IF \E i \in 1..Len(map) : map[i].key = key
    THEN [i \in 1..Len(map) |-> IF map[i].key = key THEN [key |-> key, total |-> v] ELSE map[i]]
    ELSE Append(map, [key |-> key, total |-> v])

\* the day key of an entry: the UTC date of the entry's local midnight
EntryKey(ts, off) == toISODate(startOfDay(ts, off))

\* the loop of rollupByDay over the entries that remain
RECURSIVE RollupLoop(_, _, _)
RollupLoop(map, ls, off) ==
    IF ls = <<>> THEN map
    ELSE LET l == Head(ls)
             key == EntryKey(l.ts, off)
         IN  RollupLoop(MapSet(map, key, MapGet(map, key) + l.sugarG), Tail(ls), off)

\* an entry replaces the total of its day
rollupByDay_Overwrite(ls, off) ==
    LET RECURSIVE Loop(_, _)
        Loop(map, rest) ==
            IF rest = <<>> THEN map
            ELSE Loop(MapSet(map, EntryKey(Head(rest).ts, off), Head(rest).sugarG), Tail(rest))
    IN  Loop(<<>>, ls)

rollupByDay(ls, off) == RollupLoop(<<>>, ls, off)

\* the comparison is not strict
OverLimit_Inclusive(sugar, dailyLimit) == sugar >= dailyLimit

\* over: sugar > dailyLimit
OverLimit(sugar, dailyLimit) == sugar > dailyLimit

\* start = addDays(startOfDay(new Date()), -6)
SeriesStart(now, off) == addDays(startOfDay(now, off), 0 - 6)

last7DaysSeries(ls, dailyLimit, now, off) ==
    LET start == SeriesStart(now, off)
        roll == rollupByDay(ls, off)
    IN  [d \in 1..7 |->
            LET key == toISODate(addDays(start, d - 1))
                sugar == MapGet(roll, key)
            IN  [key |-> key, day |-> DayLabel(key), sugar |-> sugar,
                 limit |-> dailyLimit, over |-> OverLimit(sugar, dailyLimit)]]

\* todayEnd.setHours(23,59,59,999): the last instant of the local day
EndOfDay(now, off) == startOfDay(now, off) + (HoursPerDay - 1)

\* the filter admits the entries of every earlier day too
InToday_NoStart(ts, now, off) == ts <= EndOfDay(now, off)

\* l.ts >= todayStart.getTime() && l.ts <= todayEnd.getTime()
InToday(ts, now, off) == ts >= startOfDay(now, off) /\ ts <= EndOfDay(now, off)

\* logs.filter(...).reduce((a, b) => a + b.sugarG, 0)
todaySugar(ls, now, off) ==
    LET RECURSIVE Sum(_)
        Sum(rest) ==
            IF rest = <<>> THEN 0
            ELSE (IF InToday(Head(rest).ts, now, off) THEN Head(rest).sugarG ELSE 0) + Sum(Tail(rest))
    IN  Sum(ls)

(***************************************************************************)
(* The aggregator's functions applied to bounded ledgers, instants and     *)
(* time zones.                                                             *)
(***************************************************************************)
MaxLogs == 3
ZoneOffsets == {0 - 5, 0, 2}
EntryInstants == {100, 238, 240, 263}
Nows == {250, 262}
SugarAmounts == {12, 39}
Limits == {39, 51}

LogEntries == [id : {"e"}, ts : EntryInstants, item : {"Soda"}, sugarG : SugarAmounts]
Ledgers == UNION {[1..n -> LogEntries] : n \in 0..MaxLogs}

AggregatorCalls ==
    {[fn |-> "rollupByDay", args |-> <<ls, off>>] : ls \in Ledgers, off \in ZoneOffsets}
    \cup {[fn |-> "last7DaysSeries", args |-> <<ls, lim, now, off>>] :
            ls \in Ledgers, lim \in Limits, now \in Nows, off \in ZoneOffsets}
    \cup {[fn |-> "todaySugar", args |-> <<ls, now, off>>] :
            ls \in Ledgers, now \in Nows, off \in ZoneOffsets}

InitAggregator ==
    /\ InitApp(0)
    /\ InitBudget
    /\ InitLedger
    /\ call \in AggregatorCalls
    /\ ret = <<>>

CallRollupByDay ==
    /\ call.fn = "rollupByDay" /\ ret = <<>>
    /\ ret' = <<rollupByDay(call.args[1], call.args[2])>>
    /\ UNCHANGED <<appVars, modelVars, ledgerVars, uiVars, call>>

CallLast7DaysSeries ==
    /\ call.fn = "last7DaysSeries" /\ ret = <<>>
    /\ ret' = <<last7DaysSeries(call.args[1], call.args[2], call.args[3], call.args[4])>>
    /\ UNCHANGED <<appVars, modelVars, ledgerVars, uiVars, call>>

CallTodaySugar ==
    /\ call.fn = "todaySugar" /\ ret = <<>>
    /\ ret' = <<todaySugar(call.args[1], call.args[2], call.args[3])>>
    /\ UNCHANGED <<appVars, modelVars, ledgerVars, uiVars, call>>

NextAggregator == CallRollupByDay \/ CallLast7DaysSeries \/ CallTodaySugar

SpecAggregator == InitAggregator /\ [][NextAggregator]_vars

(***************************************************************************)
(* Claims about the aggregator.                                            *)
(***************************************************************************)
\* a Map read as a mapping: its set of (key, total) pairs
AsMapping(map) == {<<map[i].key, map[i].total>> : i \in 1..Len(map)}

\* the keys of a Map
MapKeys(map) == {map[i].key : i \in 1..Len(map)}

\* the sugar of the entries of ls that satisfy P
SugarWhere(ls, P(_)) ==
    LET RECURSIVE Sum(_)
        Sum(i) == IF i = 0 THEN 0
                  ELSE (IF P(ls[i]) THEN ls[i].sugarG ELSE 0) + Sum(i - 1)
    IN  Sum(Len(ls))

\* the local calendar day (as a day number) that holds the instant t
LocalDate(t, off) == (t + off) \div HoursPerDay

\* C11: rollupByDay is independent of entry order: every permutation of a
\* ledger yields the same mapping from day key to total.
C11_RollupOrderIndependent ==
    Returned("rollupByDay") =>
        LET ls == call.args[1]
            off == call.args[2]
        IN  \A p \in Permutations(1..Len(ls)) :
                AsMapping(rollupByDay([i \in 1..Len(ls) |-> ls[p[i]]], off)) = AsMapping(ret[1])

C11_Witness ==
    /\ Returned("rollupByDay")
    /\ Len(call.args[1]) = 3
    /\ call.args[1][1].ts = call.args[1][3].ts
    /\ call.args[1][1].ts # call.args[1][2].ts
    /\ call.args[1][1].sugarG # call.args[1][3].sugarG
    /\ Len(ret[1]) = 2

\* C12: rollupByDay maps each day key to the sum of the sugar of all entries
\* with that key, has no key for a day without entries, counts entries of
\* identical content each, and its values add up to the sugar of all entries.
C12_RollupSumsPerDay ==
    Returned("rollupByDay") =>
        LET ls == call.args[1]
            off == call.args[2]
            map == ret[1]
            Every(l) == TRUE
        IN  /\ \A i, j \in 1..Len(map) : map[i].key = map[j].key => i = j
            /\ MapKeys(map) = {EntryKey(ls[i].ts, off) : i \in 1..Len(ls)}
            /\ \A i \in 1..Len(map) :
                   LET OnDay(l) == EntryKey(l.ts, off) = map[i].key
                   IN  map[i].total = SugarWhere(ls, OnDay)
            /\ Reduce([i \in 1..Len(map) |-> map[i].total], 0) = SugarWhere(ls, Every)

C12_Witness ==
    /\ Returned("rollupByDay")
    /\ Len(call.args[1]) = 3
    /\ call.args[1][1] = call.args[1][2]
    /\ call.args[1][1].sugarG = 39
    /\ call.args[1][3].ts # call.args[1][1].ts
    /\ \E i \in 1..Len(ret[1]) : ret[1][i].total = 78

\* C13 (as stated): for every timestamp and every UTC offset the day key of an
\* entry is the date of the local calendar day that holds the timestamp, and
\* two entries share a key exactly when they fall on the same local day.
C13_DayKeyIsLocalDate ==
    Returned("rollupByDay") =>
        LET ls == call.args[1]
            off == call.args[2]
        IN  /\ MapKeys(ret[1]) = {LocalDate(ls[i].ts, off) : i \in 1..Len(ls)}
            /\ \A i, j \in 1..Len(ls) :
                   (EntryKey(ls[i].ts, off) = EntryKey(ls[j].ts, off))
                       <=> (LocalDate(ls[i].ts, off) = LocalDate(ls[j].ts, off))

\* C14 (as stated): the series has exactly 7 elements, one per calendar day for
\* 7 consecutive days, oldest first, and the last element's day is today's
\* calendar date.
C14_SeriesEndsToday ==
    Returned("last7DaysSeries") =>
        LET series == ret[1]
            now == call.args[3]
            off == call.args[4]
        IN  /\ Len(series) = 7
            /\ \A d \in 1..6 : series[d + 1].key = series[d].key + 1
            /\ series[7].key = LocalDate(now, off)
            /\ series[7].day = DayLabel(LocalDate(now, off))

\* C15: every element of the series carries the limit passed in, is over
\* the limit exactly when its total is strictly greater than that limit, and
\* has total 0 for a day without entries.
C15_OverLimitIsStrict ==
    Returned("last7DaysSeries") =>
        LET ls == call.args[1]
            lim == call.args[2]
            off == call.args[4]
            series == ret[1]
        IN  \A d \in 1..Len(series) :
                /\ series[d].limit = lim
                /\ series[d].over <=> (series[d].sugar > lim)
                /\ (series[d].sugar = lim) => ~series[d].over
                /\ (\A i \in 1..Len(ls) : EntryKey(ls[i].ts, off) # series[d].key)
                       => series[d].sugar = 0

C15_Witness ==
    /\ Returned("last7DaysSeries")
    /\ \E d \in 1..7 : ret[1][d].sugar = call.args[2] /\ ~ret[1][d].over
    /\ \E d \in 1..7 : ret[1][d].sugar > call.args[2] /\ ret[1][d].over
    /\ \E d \in 1..7 : ret[1][d].sugar = 0 /\ ~ret[1][d].over

\* C16: today's total, computed by filtering the entries between local
\* midnight and the last instant of the current local day, equals the total of
\* the last element of the 7-day series, which is the rollup's value for
\* today's key (0 when absent).
C16_TodayEqualsSeriesLast ==
    Returned("todaySugar") =>
        LET ls == call.args[1]
            now == call.args[2]
            off == call.args[3]
        IN  /\ ret[1] = last7DaysSeries(ls, 0, now, off)[7].sugar
            /\ ret[1] = MapGet(rollupByDay(ls, off), toISODate(startOfDay(now, off)))

C16_Witness ==
    /\ Returned("todaySugar")
    /\ call.args[3] = 2
    /\ call.args[2] = 262
    /\ Len(call.args[1]) = 3
    /\ call.args[1][1].ts = 263
    /\ call.args[1][2].ts = 240
    /\ call.args[1][3].ts = 263
    /\ ret[1] = 51

(***************************************************************************)
(* Import normalizer (parseCsv) and the ledger's text inputs.              *)
(***************************************************************************)
CharAt(str, i) == SubSeq(str, i, i)

Digits == "0123456789"
IsDigit(c) == \E i \in 1..10 : CharAt(Digits, i) = c
DigitValue(c) == (CHOOSE i \in 1..10 : CharAt(Digits, i) = c) - 1

\* the characters String.prototype.trim removes, of those that occur here
IsSpace(c) == c \in {" ", "\t", "\r", "\n"}

\* String.prototype.trim
RECURSIVE trim(_)
trim(str) ==
    IF str = "" THEN ""
    ELSE IF IsSpace(CharAt(str, 1)) THEN trim(SubSeq(str, 2, Len(str)))
    ELSE IF IsSpace(CharAt(str, Len(str))) THEN trim(SubSeq(str, 1, Len(str) - 1))
    ELSE str

\* text.split(/\r?\n/): cur is the piece read so far
RECURSIVE SplitLines(_, _)
SplitLines(text, cur) ==
    IF text = "" THEN <<cur>>
    ELSE IF CharAt(text, 1) = "\n"
         THEN <<cur>> \o SplitLines(SubSeq(text, 2, Len(text)), "")
    ELSE IF Len(text) >= 2 /\ SubSeq(text, 1, 2) = "\r\n"
         THEN <<cur>> \o SplitLines(SubSeq(text, 3, Len(text)), "")
    ELSE SplitLines(SubSeq(text, 2, Len(text)), cur \o CharAt(text, 1))

\* line.split(",")
RECURSIVE SplitCells(_, _)
SplitCells(line, cur) ==
    IF line = "" THEN <<cur>>
    ELSE IF CharAt(line, 1) = ","
         THEN <<cur>> \o SplitCells(SubSeq(line, 2, Len(line)), "")
    ELSE SplitCells(SubSeq(line, 2, Len(line)), cur \o CharAt(line, 1))

\* .filter(l => l.trim().length)
NonEmptyLines(text) == SelectSeq(SplitLines(text, ""), LAMBDA l : Len(trim(l)) > 0)

HeaderWords == {"date", "item", "sugar"}

\* the header test looks at every non-empty line
hasHeader_AnyLine(lines) == \E i \in 1..Len(lines) : Test(HeaderWords, toLowerCase(lines[i]))

\* /(date|item|sugar)/.test(lines[0].toLowerCase())
hasHeader(lines) == Test(HeaderWords, toLowerCase(lines[1]))

\* String(s).replace(/[^0-9.]/g, "")
RECURSIVE StripNonNumeric(_)
StripNonNumeric(str) ==
    IF str = "" THEN ""
    ELSE (IF IsDigit(CharAt(str, 1)) \/ CharAt(str, 1) = "." THEN CharAt(str, 1) ELSE "")
         \o StripNonNumeric(SubSeq(str, 2, Len(str)))

\* the value of a string of digits
RECURSIVE DigitsValue(_)
DigitsValue(str) ==
    IF str = "" THEN 0
    ELSE 10 * DigitsValue(SubSeq(str, 1, Len(str) - 1)) + DigitValue(CharAt(str, Len(str)))

\* the position of the first "." of str, 0 when there is none
DotAt(str) ==
    IF \E i \in 1..Len(str) : CharAt(str, i) = "."
    THEN CHOOSE i \in 1..Len(str) :
             CharAt(str, i) = "." /\ \A j \in 1..(i - 1) : CharAt(str, j) # "."
    ELSE 0

AllDigits(str) == \A i \in 1..Len(str) : IsDigit(CharAt(str, i))

\* Number(str) for a string of digits and dots: the whole part and the
\* decimals, or NaN; Number("") is 0
NumberOfDecimal(str) ==
    LET dot == DotAt(str)
        whole == IF dot = 0 THEN str ELSE SubSeq(str, 1, dot - 1)
        frac == IF dot = 0 THEN "" ELSE SubSeq(str, dot + 1, Len(str))
    IN  IF AllDigits(whole) /\ AllDigits(frac) /\ (str = "" \/ whole # "" \/ frac # "")
        THEN [kind |-> "num", whole |-> DigitsValue(whole), frac |-> frac]
        ELSE [kind |-> "nan", whole |-> 0, frac |-> ""]

\* !n for a number: n is 0 or NaN
IsFalsyNumber(n) ==
    n.kind = "nan" \/ (n.whole = 0 /\ \A i \in 1..Len(n.frac) : CharAt(n.frac, i) = "0")

\* Math.round of a non-negative decimal
RoundDecimal(n) ==
    n.whole + (IF n.frac # "" /\ DigitValue(CharAt(n.frac, 1)) >= 5 THEN 1 ELSE 0)

\* the day number of a date of the proleptic Gregorian calendar
DaysFromCivil(y0, m, d) ==
    LET y == IF m <= 2 THEN y0 - 1 ELSE y0
        era == y \div 400
        yoe == y - era * 400
        doy == (153 * (IF m > 2 THEN m - 3 ELSE m + 9) + 2) \div 5 + d - 1
        doe == yoe * 365 + yoe \div 4 - yoe \div 100 + doy
    IN  era * 146097 + doe - 719468

IsLeapYear(y) == (y % 4 = 0 /\ y % 100 # 0) \/ y % 400 = 0

DaysInMonth(y, m) ==
    IF m = 2 THEN (IF IsLeapYear(y) THEN 29 ELSE 28)
    ELSE IF m \in {4, 6, 9, 11} THEN 30 ELSE 31

\* Date.parse of a date-only ISO string "YYYY-MM-DD" (UTC midnight, in
\* hours); NaN for a string that is no date at all
DateParse(str) ==
    IF /\ Len(str) = 10
       /\ CharAt(str, 5) = "-" /\ CharAt(str, 8) = "-"
       /\ AllDigits(SubSeq(str, 1, 4)) /\ AllDigits(SubSeq(str, 6, 7)) /\ AllDigits(SubSeq(str, 9, 10))
       /\ DigitsValue(SubSeq(str, 6, 7)) \in 1..12
       /\ DigitsValue(SubSeq(str, 9, 10)) \in
              1..DaysInMonth(DigitsValue(SubSeq(str, 1, 4)), DigitsValue(SubSeq(str, 6, 7)))
    THEN Num(HoursPerDay * DaysFromCivil(DigitsValue(SubSeq(str, 1, 4)),
                                         DigitsValue(SubSeq(str, 6, 7)),
                                         DigitsValue(SubSeq(str, 9, 10))))
    ELSE NaN

\* a row whose date cannot be parsed is dropped
ParseLine_DropBadDate(line, now) ==
    LET cells == SplitCells(line, "")
        dateStr == IF Len(cells) = 2 THEN "" ELSE cells[1]
        item == IF Len(cells) = 2 THEN cells[1] ELSE cells[2]
        sugarStr == IF Len(cells) = 2 THEN cells[2] ELSE cells[3]
        ts == IF dateStr # "" THEN DateParse(dateStr) ELSE Num(now)
        sugarG == NumberOfDecimal(StripNonNumeric(sugarStr))
    IN  IF Len(cells) < 2 THEN <<>>
        ELSE IF item = "" \/ IsFalsyNumber(sugarG) \/ ts.kind = "nan" THEN <<>>
        ELSE <<[ts |-> ts.v, item |-> trim(item), sugarG |-> RoundDecimal(sugarG)]>>

\* the body of the row loop for one line: the rows it pushes (none or one)
ParseLine(line, now) ==
    LET cells == SplitCells(line, "")
        dateStr == IF Len(cells) = 2 THEN "" ELSE cells[1]
        item == IF Len(cells) = 2 THEN cells[1] ELSE cells[2]
        sugarStr == IF Len(cells) = 2 THEN cells[2] ELSE cells[3]
        ts == IF dateStr # "" THEN DateParse(dateStr) ELSE Num(now)
        sugarG == NumberOfDecimal(StripNonNumeric(sugarStr))
    IN  IF Len(cells) < 2 THEN <<>>
        ELSE IF item = "" \/ IsFalsyNumber(sugarG) THEN <<>>
        ELSE <<[ts |-> IF ts.kind = "nan" THEN now ELSE ts.v,
                item |-> trim(item), sugarG |-> RoundDecimal(sugarG)]>>

RECURSIVE ParseRows(_, _)
ParseRows(rows, now) ==
    IF rows = <<>> THEN <<>>
    ELSE ParseLine(Head(rows), now) \o ParseRows(Tail(rows), now)

parseCsv(text, now) ==
    LET lines == NonEmptyLines(text)
    IN  IF lines = <<>> THEN <<>>
        ELSE ParseRows(IF hasHeader(lines) THEN Tail(lines) ELSE lines, now)

(***************************************************************************)
(* parseCsv applied to bounded texts.                                      *)
(***************************************************************************)
MaxLines == 2
LineBreaks == {"\n", "\r\n"}
LinePool ==
    {"date,item,sugarG", "Item,Sugar", "2024-01-01,Soda,39g", "Soda,39", "Water,0",
     "Tea,0.4", " ,5", "soon,Cake,12.5", ",Milk,5", "Juice", "", "1970-01-11,Pie,7,x",
     "Sugar cookie,12", "Gum,1.2.3", " Jam , 8 g"}

\* the lines joined by a line break
RECURSIVE JoinLines(_, _)
JoinLines(ls, sep) ==
    IF ls = <<>> THEN ""
    ELSE IF Len(ls) = 1 THEN ls[1]
    ELSE ls[1] \o sep \o JoinLines(Tail(ls), sep)

Texts ==
    {JoinLines(ls, sep) : ls \in UNION {[1..n -> LinePool] : n \in 0..MaxLines},
                          sep \in LineBreaks}

NormalizerCalls == {[fn |-> "parseCsv", args |-> <<text, now>>] : text \in Texts, now \in Nows}

InitNormalizer ==
    /\ InitApp(0)
    /\ InitBudget
    /\ InitLedger
    /\ call \in NormalizerCalls
    /\ ret = <<>>

CallParseCsv ==
    /\ call.fn = "parseCsv" /\ ret = <<>>
    /\ ret' = <<parseCsv(call.args[1], call.args[2])>>
    /\ UNCHANGED <<appVars, modelVars, ledgerVars, uiVars, call>>

NextNormalizer == CallParseCsv

SpecNormalizer == InitNormalizer /\ [][NextNormalizer]_vars

(***************************************************************************)
(* Claims about the import normalizer.                                     *)
(***************************************************************************)
Row(ts, item, sugarG) == [ts |-> ts, item |-> item, sugarG |-> sugarG]

\* 2024-01-01T00:00Z in hours since the epoch (19723 days)
Jan1st2024 == 19723 * 24

\* the lines of LinePool that contain "date", "item" or "sugar" in any case
HeaderLike == {"date,item,sugarG", "Item,Sugar", "Sugar cookie,12"}

\* the lines of LinePool with 2 or 3 comma-separated fields
TwoOrThreeFields ==
    {"date,item,sugarG", "Item,Sugar", "2024-01-01,Soda,39g", "Soda,39", "Water,0",
     "Tea,0.4", " ,5", "soon,Cake,12.5", ",Milk,5", "Sugar cookie,12", "Gum,1.2.3",
     " Jam , 8 g"}

\* what reading a line of LinePool as data gives: (item, sugar) at the current
\* instant for 2 fields, (date, item, sugar) for 3 or more, the sugar field
\* without its characters other than digits and "."; no row for fewer fields,
\* an empty item or a sugar field that is zero or no number
ReadAsData(line, now) ==
    CASE line = "2024-01-01,Soda,39g" -> <<Row(Jan1st2024, "Soda", 39)>>
      [] line = "Soda,39" -> <<Row(now, "Soda", 39)>>
      [] line = "Tea,0.4" -> <<Row(now, "Tea", 0)>>
      [] line = " ,5" -> <<Row(now, "", 5)>>
      [] line = "soon,Cake,12.5" -> <<Row(now, "Cake", 13)>>
      [] line = ",Milk,5" -> <<Row(now, "Milk", 5)>>
      [] line = "1970-01-11,Pie,7,x" -> <<Row(240, "Pie", 7)>>
      [] line = "Sugar cookie,12" -> <<Row(now, "Sugar cookie", 12)>>
      [] line = " Jam , 8 g" -> <<Row(now, "Jam", 8)>>
      [] OTHER -> <<>>

RECURSIVE ReadAll(_, _)
ReadAll(lines, now) ==
    IF lines = <<>> THEN <<>> ELSE ReadAsData(Head(lines), now) \o ReadAll(Tail(lines), now)

\* C17: the first non-empty line is skipped when it contains "date", "item"
\* or "sugar" in any case and is data otherwise; a remaining line of 2 fields is
\* read as (item, sugar) at the current instant and one of 3 fields as (date,
\* item, sugar), the sugar field stripped of all but digits and "."; a header
\* followed by "2024-01-01,Soda,39g" gives one row (Soda, 39, 2024-01-01) and
\* "Soda,39" alone gives one row.
C17_HeaderAndFields ==
    Returned("parseCsv") =>
        LET text == call.args[1]
            now == call.args[2]
            lines == NonEmptyLines(text)
            data == IF lines # <<>> /\ lines[1] \in HeaderLike THEN Tail(lines) ELSE lines
        IN  /\ (\A i \in 1..Len(data) : data[i] \in TwoOrThreeFields)
                  => ret[1] = ReadAll(data, now)
            /\ text \in {"date,item,sugarG\n2024-01-01,Soda,39g",
                         "date,item,sugarG\r\n2024-01-01,Soda,39g"}
                  => ret[1] = <<Row(Jan1st2024, "Soda", 39)>>
            /\ text = "Soda,39" => ret[1] = <<Row(now, "Soda", 39)>>

C17_Witness ==
    /\ Returned("parseCsv")
    /\ call.args[1] = "date,item,sugarG\n2024-01-01,Soda,39g"
    /\ Len(ret[1]) = 1
    /\ ret[1][1].item = "Soda" /\ ret[1][1].sugarG = 39 /\ ret[1][1].ts = Jan1st2024

\* C18 (as stated): every row returned has a non-empty item label and a sugar
\* amount greater than zero; "Water,0" yields no row.
C18_RowsAreNonEmptyAndPositive ==
    Returned("parseCsv") =>
        /\ \A k \in 1..Len(ret[1]) : ret[1][k].item # "" /\ ret[1][k].sugarG > 0
        /\ call.args[1] = "Water,0" => ret[1] = <<>>

\* C19: parseCsv returns for every text at most as many rows as the text has
\* non-empty lines, in the order of the lines, and a row whose date is missing
\* or cannot be parsed carries the current instant instead of being dropped.
C19_NeverFailsKeepsOrder ==
    Returned("parseCsv") =>
        LET now == call.args[2]
            lines == NonEmptyLines(call.args[1])
            rows == ret[1]
        IN  /\ Len(rows) <= Len(lines)
            /\ \E f \in [1..Len(rows) -> 1..Len(lines)] :
                   /\ \A k, l \in 1..Len(rows) : k < l => f[k] < f[l]
                   /\ \A k \in 1..Len(rows) : <<rows[k]>> = ReadAsData(lines[f[k]], now)
            /\ \A i \in 2..Len(lines) :
                   /\ lines[i] = "soon,Cake,12.5" => \E k \in 1..Len(rows) : rows[k] = Row(now, "Cake", 13)
                   /\ lines[i] = ",Milk,5" => \E k \in 1..Len(rows) : rows[k] = Row(now, "Milk", 5)
            /\ (lines # <<>> /\ lines[1] = "soon,Cake,12.5") => (rows # <<>> /\ rows[1] = Row(now, "Cake", 13))
            /\ (lines # <<>> /\ lines[1] = ",Milk,5") => (rows # <<>> /\ rows[1] = Row(now, "Milk", 5))

C19_Witness ==
    /\ Returned("parseCsv")
    /\ call.args[1] = "soon,Cake,12.5\r\n,Milk,5"
    /\ ret[1] = <<Row(call.args[2], "Cake", 13), Row(call.args[2], "Milk", 5)>>

(***************************************************************************)
(* The ledger of the App: manual adds, preset adds, bulk imports, removals. *)
(***************************************************************************)
Base36Digits == "0123456789abcdefghijklmnopqrstuvwxyz"

\* Number.prototype.toString(36) of a non-negative integer
RECURSIVE toString36(_)
toString36(n) ==
    IF n < 36 THEN CharAt(Base36Digits, n + 1)
    ELSE toString36(n \div 36) \o CharAt(Base36Digits, (n % 36) + 1)

\* Math.random().toString(36).slice(2): any string the generator can give,
\* the empty one (Math.random() = 0) included
RandomParts == {"", "k3"}

\* uid(): the random part followed by Date.now().toString(36)
uid(random, now) == random \o toString36(now)

\* parseFloat of a string of digits and dots: the longest prefix that is a
\* decimal number, NaN when there is none
ParseFloatOfDecimal(str) ==
    LET dot == DotAt(str)
        whole == IF dot = 0 THEN str ELSE SubSeq(str, 1, dot - 1)
        rest == IF dot = 0 THEN "" ELSE SubSeq(str, dot + 1, Len(str))
        frac == IF DotAt(rest) = 0 THEN rest ELSE SubSeq(rest, 1, DotAt(rest) - 1)
    IN  IF whole = "" /\ frac = ""
        THEN [kind |-> "nan", whole |-> 0, frac |-> ""]
        ELSE [kind |-> "num", whole |-> DigitsValue(whole), frac |-> frac]

parseSugar(str) ==
    LET n == ParseFloatOfDecimal(StripNonNumeric(str))
    IN  IF n.kind = "nan" THEN 0 ELSE RoundDecimal(n)

PRESETS ==
    <<[label |-> "Soda 12oz", grams |-> 39],
      [label |-> "Sweetened yogurt (cup)", grams |-> 18],
      [label |-> "Chocolate bar", grams |-> 26],
      [label |-> "Sports drink 20oz", grams |-> 34],
      [label |-> "Iced latte (sweet)", grams |-> 24],
      [label |-> "Cookie", grams |-> 12]>>

LogEntry(id, ts, item, sugarG, context) ==
    [id |-> id, ts |-> ts, item |-> item, sugarG |-> sugarG, context |-> context]

\* rows.filter(r => r.item && r.sugarG > 0).map(...): randoms[i] is the random
\* part of the i-th uid() call
addLogsMapped(rows, randoms, now) ==
    LET kept == SelectSeq(rows, LAMBDA r : r.item # "" /\ r.sugarG > 0)
    IN  [i \in 1..Len(kept) |->
            LogEntry(uid(randoms[i], now),
                     IF kept[i].ts = 0 THEN now ELSE kept[i].ts,
                     kept[i].item, kept[i].sugarG, "Import")]

MaxLedger == 2
MaxClock == 251
FirstClock == 250
NewItems == {"", "Latte"}
NewSugars == {"24g", "", "0.4"}
QuickPresets == {6}
ImportTexts == {"item,sugar\nSoda,39\nTea,0.4", "1970-01-11,Pie,7\r\nCake,12"}

InitLedgerApp ==
    /\ InitApp(0)
    /\ InitBudget
    /\ logs = <<>>
    /\ clock = FirstClock
    /\ retired = {}
    /\ InitUi
    /\ call = NoCall
    /\ ret = <<>>

\* the identifiers of the entries of a ledger
IdsOf(ls) == {ls[i].id : i \in 1..Len(ls)}

\* onChange of the item field: setNewItem, and the App renders again
TypeItem ==
    \E v \in NewItems :
        /\ v # newItem
        /\ newItem' = v
        /\ renderedLogs' = logs
        /\ UNCHANGED <<appVars, modelVars, callVars, ledgerVars, newSugar, connections, admin>>

\* onChange of the amount field: setNewSugar, and the App renders again
TypeSugar ==
    \E v \in NewSugars :
        /\ v # newSugar
        /\ newSugar' = v
        /\ renderedLogs' = logs
        /\ UNCHANGED <<appVars, modelVars, callVars, ledgerVars, newItem, connections, admin>>

\* the Add button inserts whatever the form holds
AddLog_NoGuard ==
    \E random \in RandomParts :
        /\ Len(renderedLogs) < MaxLedger
        /\ logs' = <<LogEntry(uid(random, clock), clock, newItem, parseSugar(newSugar), "Manual")>>
                       \o renderedLogs
        /\ renderedLogs' = logs'
        /\ newItem' = ""
        /\ newSugar' = ""
        /\ UNCHANGED <<appVars, modelVars, callVars, clock, retired, connections, admin>>

\* addLog: the Add button of the manual form; it writes the entry in front of
\* the ledger value its render captured
AddLog ==
    \E random \in RandomParts :
        LET grams == parseSugar(newSugar)
        IN  IF newItem = "" \/ grams <= 0
            THEN UNCHANGED vars
            ELSE /\ Len(renderedLogs) < MaxLedger
                 /\ logs' = <<LogEntry(uid(random, clock), clock, newItem, grams, "Manual")>>
                                \o renderedLogs
                 /\ renderedLogs' = logs'
                 /\ retired' = retired \cup (IdsOf(logs) \ IdsOf(logs'))
                 /\ newItem' = ""
                 /\ newSugar' = ""
                 /\ UNCHANGED <<appVars, modelVars, callVars, clock, connections, admin>>

\* setQuickAdd: a preset button (functional update)
QuickAdd ==
    \E p \in QuickPresets, random \in RandomParts :
        /\ Len(logs) < MaxLedger
        /\ logs' = <<LogEntry(uid(random, clock), clock, PRESETS[p].label, PRESETS[p].grams, "Quick")>> \o logs
        /\ renderedLogs' = logs'
        /\ UNCHANGED <<appVars, modelVars, callVars, clock, retired, newItem, newSugar,
                       connections, admin>>

\* ImportCsv onChange after the file's text has arrived: parseCsv, then addLogs
\* (functional update); the App has not rendered again yet
ImportFile ==
    /\ Len(logs) < MaxLedger
    /\ \E text \in ImportTexts :
        LET rows == parseCsv(text, clock)
        IN  \E randoms \in [1..Len(rows) -> RandomParts] :
                LET mapped == addLogsMapped(rows, randoms, clock)
                IN  /\ Len(logs) + Len(mapped) <= MaxLedger
                    /\ logs' = mapped \o logs
                    /\ UNCHANGED <<appVars, modelVars, callVars, clock, retired, uiVars>>

\* the render that follows an import
FlushRender ==
    /\ renderedLogs # logs
    /\ renderedLogs' = logs
    /\ UNCHANGED <<appVars, modelVars, callVars, ledgerVars, newItem, newSugar,
                   connections, admin>>

\* an identifier that uid() never returns
AbsentId == "-"

\* the first entry is removed, whatever the identifier
RemoveLogById_DropsFirst(id) ==
    /\ renderedLogs # <<>>
    /\ logs' = Tail(renderedLogs)
    /\ renderedLogs' = logs'
    /\ retired' = retired \cup (IdsOf(logs) \ IdsOf(logs'))
    /\ UNCHANGED <<appVars, modelVars, callVars, clock, newItem, newSugar, connections, admin>>

\* removeLog(id) and the Remove button of an entry:
\* setLogs(logs.filter(x => x.id !== id)) on the ledger value the render captured
RemoveLogById(id) ==
    /\ logs' = SelectSeq(renderedLogs, LAMBDA x : x.id # id)
    /\ renderedLogs' = logs'
    /\ retired' = retired \cup (IdsOf(logs) \ IdsOf(logs'))
    /\ UNCHANGED <<appVars, modelVars, callVars, clock, newItem, newSugar, connections, admin>>

RemoveLog == \E id \in IdsOf(renderedLogs) \cup {AbsentId} : RemoveLogById(id)

\* time passes
Tick ==
    /\ clock < MaxClock
    /\ clock' = clock + 1
    /\ UNCHANGED <<appVars, modelVars, callVars, logs, retired, uiVars>>

NextLedger ==
    \/ TypeItem \/ TypeSugar \/ AddLog \/ QuickAdd \/ ImportFile \/ FlushRender
    \/ RemoveLog \/ Tick \/ ResetAll

SpecLedger == InitLedgerApp /\ [][NextLedger]_vars

(***************************************************************************)
(* Removal.  The App starts with the ledger that storage holds: up to      *)
(* MaxStored entries, made by the manual form or an import at one of two   *)
(* instants, two of which may carry the same identifier; then entries are  *)
(* removed.                                                                *)
(***************************************************************************)
MaxStored == 3
StoredClocks == {FirstClock, FirstClock + 1}
StoredEntries ==
    {LogEntry(uid(random, ts), ts, e[1], e[2], e[3]) :
        random \in RandomParts, ts \in StoredClocks,
        e \in {<<"Latte", 24, "Manual">>, <<"Soda", 39, "Import">>}}
StoredLedgers == UNION {[1..n -> StoredEntries] : n \in 0..MaxStored}

InitRemove ==
    /\ InitApp(0)
    /\ InitBudget
    /\ logs \in StoredLedgers
    /\ clock = FirstClock
    /\ retired = {}
    /\ InitUi
    /\ call = NoCall
    /\ ret = <<>>

NextRemove == RemoveLog

SpecRemove == InitRemove /\ [][NextRemove]_vars

(***************************************************************************)
(* Reset.  The App starts from what storage holds: a bonus history that is *)
(* empty but for today, or one with grants of the two days before; then    *)
(* the user enters energy, adds presets, edits the profile and a           *)
(* coefficient, toggles connections and the admin mode, and resets.        *)
(***************************************************************************)
StoredHistories == {<<>>, ((0 - 2) :> 18) @@ ((0 - 1) :> 18)}
ResetAges == {44}
ResetClampMin == {1850}
ConnectionNames == {"uberEats", "banking", "appleHealth"}

InitReset ==
    /\ today = 0
    /\ utcOffset = 0
    /\ activityKcalToday = 0
    \* the first render has run its effects
    /\ \E h \in StoredHistories :
           /\ bonusHistory = PersistBonus(h, todayKey(0, 0), cappedBonusToday(h, 0, 0, 0))
           /\ effectDeps = <<cappedBonusToday(h, 0, 0, 0), todayKey(0, 0)>>
    /\ InitBudget
    /\ logs = <<>>
    /\ clock = FirstClock
    /\ retired = {}
    /\ InitUi
    /\ call = NoCall
    /\ ret = <<>>

\* ConnectTile: onToggle(!enabled), setConnections({...connections, [name]: v})
ToggleConnection ==
    \E name \in ConnectionNames :
        /\ connections' = [connections EXCEPT ![name] = ~connections[name]]
        /\ UNCHANGED <<appVars, modelVars, callVars, ledgerVars, newItem, newSugar,
                       renderedLogs, admin>>

\* the Admin button: setAdmin(!admin)
ToggleAdmin ==
    /\ admin' = ~admin
    /\ UNCHANGED <<appVars, modelVars, callVars, ledgerVars, newItem, newSugar,
                   renderedLogs, connections>>

NextReset ==
    \/ SetActivityKcal
    \/ QuickAdd
    \/ SetOnboarding("age", ResetAges)
    \/ SetOnboarding("onboarded", {TRUE})
    \/ SetSettings({"clampMin"}, ResetClampMin)
    \/ ToggleConnection
    \/ ToggleAdmin
    \/ ResetAll

SpecReset == InitReset /\ [][NextReset]_vars

(***************************************************************************)
(* Claims about the ledger.                                                *)
(***************************************************************************)
\* C20 (as stated): after any sequence of manual adds, preset adds, bulk
\* imports and removals no two entries of the ledger share an identifier, and
\* the identifier of a removed entry is never given to a later entry.
C20_IdentifiersUnique ==
    /\ \A i, j \in 1..Len(logs) : logs[i].id = logs[j].id => i = j
    /\ \A i \in 1..Len(logs) : logs[i].id \notin retired

\* the amount strings of NewSugars (and the empty field) that parseSugar turns
\* into 0: nothing to parse, or a number that rounds to 0
NormalizesToZero == {"", "0.4"}

\* C21: after any sequence of manual adds, preset adds and bulk imports every
\* entry of the ledger has a non-empty item label and a whole sugar amount
\* greater than zero; a manual add whose item is empty or whose amount
\* normalizes to zero leaves the ledger and the fields of the form unchanged.
C21_EntriesValid ==
    /\ [](\A i \in 1..Len(logs) :
              logs[i].item # "" /\ logs[i].sugarG \in Nat /\ logs[i].sugarG > 0)
    /\ [][(AddLog /\ (newItem = "" \/ newSugar \in NormalizesToZero))
              => UNCHANGED <<logs, newItem, newSugar>>]_vars

C21_Witness ==
    /\ \E i \in 1..Len(logs) : logs[i].context = "Manual"
    /\ \E i \in 1..Len(logs) : logs[i].context = "Import"
    /\ newItem = "Latte"
    /\ newSugar = "0.4"

\* b is a followed by nothing, or a with entries put in front of it
IsSuffix(a, b) == Len(a) <= Len(b) /\ SubSeq(b, Len(b) - Len(a) + 1, Len(b)) = a

\* the entries of ls whose identifier is not id, in their order
Without(ls, id) ==
    LET RECURSIVE Keep(_)
        Keep(rest) ==
            IF rest = <<>> THEN <<>>
            ELSE (IF Head(rest).id = id THEN <<>> ELSE <<Head(rest)>>) \o Keep(Tail(rest))
    IN  Keep(ls)

\* C22 (as stated): an entry stays in the ledger with all fields unchanged
\* until it is removed by its identifier or a reset is confirmed, under every
\* interleaving, also when an import completes between a render and a manual
\* add or a removal that writes back the ledger captured at that render.
C22_AppendRemoveOnly ==
    [][\/ IsSuffix(logs, logs')
       \/ \E id \in IdsOf(logs) : logs' = Without(logs, id)
       \/ ResetAll]_vars

C23_NaNPropagates ==
    model.breakdown.bmi.kind = "nan" =>
        /\ model.total \notin Int
        /\ model.breakdown.bmiAdj \notin Int
        /\ model.breakdown.pancreasAdj \notin Int

\* the BMI of the profile lies below t10 tenths; a height of 0 with a weight
\* above 0 is an infinite BMI, below nothing
BmiBelow(user, t10) ==
    user.heightCm # 0 /\ user.weightKg * 100000 < t10 * user.heightCm * user.heightCm

BmiBand(user) ==
    IF BmiBelow(user, 185) THEN "under"
    ELSE IF BmiBelow(user, 250) THEN "normal"
    ELSE IF BmiBelow(user, 300) THEN "over"
    ELSE "obese"

HasBmi(user) == ~(user.heightCm = 0 /\ user.weightKg = 0)

\* the age part of the pancreas factor, by its own bands
PancreasAgePart(age, S) ==
    CASE age < 20 -> S.pancreasYouth
      [] age >= 40 /\ age < 60 -> S.pancreasMiddle
      [] age >= 60 -> S.pancreasSenior
      [] OTHER -> 100

\* the pancreas factor as the breakdown shows it: the product of its age part
\* and its BMI part (both in hundredths) kept within [0.8, 1.1], to two decimals
ShownPancreas(agePart, bmiPart) ==
    (Max(8000, Min(11000, agePart * bmiPart)) + 50) \div 100

\* C24: the BMI adjustment is the underweight coefficient for BMI < 18.5, the
\* overweight one for 25 <= BMI < 30, the obese one for BMI >= 30 and 1 for
\* 18.5 <= BMI < 25 (18.5 gives 1, 25 overweight, 30 obese); the BMI part of
\* the pancreas factor has the same overweight and obese bands and is 1 for
\* underweight.
C24_BmiBands ==
    HasBmi(onboarding) =>
        LET band == BmiBand(onboarding)
            h == onboarding.heightCm
            w == onboarding.weightKg
            bmiPart == CASE band = "over" -> settings.bmiOver
                         [] band = "obese" -> settings.bmiObese
                         [] OTHER -> 100
        IN  /\ model.breakdown.bmiAdj =
                  CASE band = "under" -> settings.bmiUnder
                    [] band = "over" -> settings.bmiOver
                    [] band = "obese" -> settings.bmiObese
                    [] OTHER -> 100
            /\ (h = 200 /\ w = 74 => model.breakdown.bmiAdj = 100)
            /\ (h = 200 /\ w = 100 => model.breakdown.bmiAdj = settings.bmiOver)
            /\ (h = 200 /\ w = 120 => model.breakdown.bmiAdj = settings.bmiObese)
            /\ model.breakdown.pancreasAdj =
                  ShownPancreas(PancreasAgePart(onboarding.age, settings), bmiPart)

C24_Witness ==
    /\ onboarding.heightCm = 200
    /\ onboarding.weightKg = 72
    /\ onboarding.age = 19
    /\ model.breakdown.bmiAdj = settings.bmiUnder
    /\ model.breakdown.pancreasAdj = settings.pancreasYouth

\* C25: the age adjustment is the child coefficient for age < 18, the middle
\* one for 45 <= age < 60, the senior one for age >= 60 and 1 otherwise,
\* whatever the pancreas age bands say: at 18-19 and at 40-44 it is 1 while the
\* age part of the pancreas factor is the youth or the middle multiplier.
C25_AgeBands ==
    LET age == onboarding.age
        bmiPart == CASE BmiBand(onboarding) = "over" -> settings.bmiOver
                     [] BmiBand(onboarding) = "obese" -> settings.bmiObese
                     [] OTHER -> 100
    IN  /\ model.breakdown.ageAdj =
              CASE age < 18 -> settings.ageChild
                [] age >= 45 /\ age < 60 -> settings.ageMiddle
                [] age >= 60 -> settings.ageSenior
                [] OTHER -> 100
        /\ (age \in 18..19 /\ HasBmi(onboarding) =>
                /\ model.breakdown.ageAdj = 100
                /\ model.breakdown.pancreasAdj = ShownPancreas(settings.pancreasYouth, bmiPart))
        /\ (age \in 40..44 /\ HasBmi(onboarding) =>
                /\ model.breakdown.ageAdj = 100
                /\ model.breakdown.pancreasAdj = ShownPancreas(settings.pancreasMiddle, bmiPart))

C25_Witness ==
    /\ onboarding.age = 44
    /\ onboarding.heightCm = 200
    /\ onboarding.weightKg = 88
    /\ model.breakdown.ageAdj = 100
    /\ model.breakdown.pancreasAdj = settings.pancreasMiddle
    /\ settings.pancreasMiddle # 100

\* C30: with clampMin > clampMax in the coefficient table the limit is
\* round(clampMin) for every profile, whatever the product of the factors is.
C30_InvertedClampGivesMin ==
    settings.clampMin > settings.clampMax =>
        model.total = (settings.clampMin + 50) \div 100

C30_Witness ==
    /\ settings.clampMin = 4050
    /\ settings.clampMax = 1000
    /\ settings.baseOther = 900
    /\ model.total = 41

\* C27: persisting today's grant changes only the entry of the current day
\* key: what is recorded for every other day is left as it is by energy
\* edits, re-computations and day advances, and is cleared only by a
\* confirmed reset.
C27_OtherDaysUntouched ==
    [][LET key == todayKey(today', utcOffset')
       IN  \/ /\ \A k \in DOMAIN bonusHistory \ {key} :
                     k \in DOMAIN bonusHistory' /\ bonusHistory'[k] = bonusHistory[k]
              /\ DOMAIN bonusHistory' \subseteq DOMAIN bonusHistory \cup {key}
           \/ ResetAll]_vars

\* an earlier day keeps its 18 g while today's entry has been rewritten to 0
C27_Witness ==
    LET key == todayKey(today, utcOffset)
    IN  /\ key \in DOMAIN bonusHistory
        /\ bonusHistory[key] = 0
        /\ activityKcalToday = 0
        /\ \E k \in DOMAIN bonusHistory : k < key /\ bonusHistory[k] = 18

\* C28: the activity energy has no day key: when the day advances without an
\* edit or a reset the value stays, and the render of the new day computes the
\* raw bonus from it and records the weekly-capped grant under the new day's
\* key.
C28_EnergyCarriesOver ==
    [][LET key == todayKey(today, utcOffset)
       IN  /\ (today' # today =>
                  activityKcalToday' = activityKcalToday /\ bonusHistory' = bonusHistory)
           /\ ((Render \/ Mount) /\ key \notin DOMAIN bonusHistory =>
                  /\ key \in DOMAIN bonusHistory'
                  /\ bonusHistory'[key] = ExpectedGrant(bonusHistory, activityKcalToday, key)
                  /\ activityKcalToday' = activityKcalToday)]_vars

\* the energy entered on day 0 has earned a bonus on day 0 and on day 1
C28_Witness ==
    /\ today = 1
    /\ activityKcalToday = 360
    /\ DOMAIN bonusHistory = {todayKey(0, utcOffset), todayKey(1, utcOffset)}
    /\ bonusHistory[todayKey(0, utcOffset)] = 18
    /\ bonusHistory[todayKey(1, utcOffset)] = 18

\* what C29 says of everything but the bonus history: a confirmed reset
\* empties the ledger, restores the default profile (not onboarded), clears
\* every connection, sets the energy to 0 and leaves the coefficient table and
\* the admin flag as they were
ResetEffect ==
    /\ logs' = <<>>
    /\ onboarding' = [name |-> "", sex |-> "unspecified", age |-> 30, heightCm |-> 175,
                      weightKg |-> 75, ethnicity |-> "prefer-not-to-say",
                      activity |-> "moderate", consentAnalytics |-> FALSE,
                      useEthnicityAdjustment |-> FALSE, onboarded |-> FALSE]
    /\ \A name \in DOMAIN connections' : connections'[name] = FALSE
    /\ activityKcalToday' = 0
    /\ settings' = settings
    /\ admin' = admin

\* C29 (as stated): a confirmed reset does all of the above and empties the
\* bonus history; a declined reset changes no state at all.
C29_Original ==
    [][ResetAll => \/ UNCHANGED vars
                   \/ ResetEffect /\ bonusHistory' = <<>>]_vars

\* C29 amended: a confirmed reset does all of the above and drops every entry
\* of the bonus history; the render that follows the reset may record a grant
\* of 0 under today's key.  A declined reset changes no state at all.
C29_ResetClearsAll ==
    [][ResetAll => \/ UNCHANGED vars
                   \/ /\ ResetEffect
                      /\ \A k \in DOMAIN bonusHistory' :
                             k = todayKey(today', utcOffset') /\ bonusHistory'[k] = 0]_vars

\* after a reset: the preset entries are gone, the history of the earlier days
\* is gone, the admin mode and the edited coefficient are still there
C29_Witness ==
    /\ retired # {}
    /\ logs = <<>>
    /\ onboarding = DefaultOnboarding
    /\ connections = DefaultConnections
    /\ activityKcalToday = 0
    /\ DOMAIN bonusHistory \subseteq {todayKey(today, utcOffset)}
    /\ admin
    /\ settings.clampMin = 1850

====
